---- MODULE Spec2Model ----
(***************************************************************************)
(* Model of the shell-auditor audit pipeline.                              *)
(*                                                                         *)
(*   Auditor (audit store)      src/README.md:300-466                      *)
(*   FileLogger, RotatingLogger src/internal/audit/logger.go:12-148        *)
(*                                                                         *)
(* Spec    : the Auditor with a FileLogger sink, under concurrent callers  *)
(*           and the dispatch goroutines that Auditor.log spawns.          *)
(* SpecRot : the RotatingLogger on its own, driven by Log calls and the    *)
(*           wall clock that names its files.                              *)
(***************************************************************************)
EXTENDS Integers, Sequences, FiniteSets

(***************************************************************************)
(* Bounds of the model.                                                    *)
(***************************************************************************)
\* Largest maxSize argument given to NewAuditor (0 stands for "not set").
MaxSizeArg == 2
\* Number of events appended in one behaviour.
MaxAppends == 3
\* Number of LogCommandExit calls in one behaviour.
MaxExits == 2

\* Largest maxSizeMB argument given to NewRotatingLogger (0: "not set").
MaxSizeMBArg == 1
\* Number of RotatingLogger.Log calls in one behaviour.
MaxRotLogs == 3
\* Seconds the wall clock advances in one behaviour.
MaxTime == 1
\* Capacity of the BPFTracer events channel (1000 in NewBPFTracer), scaled.
EventsChanCap == 2
\* Direct calls of a sink's Log in SpecLog.
MaxLogCalls == 3
\* Length-prefixed entries laid out in the argument region of a record.
MaxEntries == 2
\* Largest ArgCount of a record.
MaxArgCount == 3
\* Bytes of an address buffer that differ from the IPv4-mapped prefix.
MaxFlips == 2

\* Calling goroutines (producers and readers).
Threads == {"g1", "g2"}
\* Process ids carried by events.
Pids == {1, 2}
\* Exit codes reported by LogCommandExit.
ExitCodes == {0, 1, 2}

None == "none"

(***************************************************************************)
(* Program constants.                                                      *)
(***************************************************************************)
\* NewAuditor: maxSize = 10000 when the argument is <= 0.
\* ExecveEvent.Args [512]byte
ArgsLen == 512
DefaultMaxSize == 10000

\* NewRotatingLogger: maxSizeMB = 100 when the argument is <= 0.
DefaultMaxSizeMB == 100
\* int64(maxSizeMB) * 1024 * 1024
MiB == 1048576

EventCommand == "command"
EventPortOpen == "port_open"
EventNetwork == "network"
EventDNS == "dns"

VARIABLES
    \* ---- Auditor ----
    maxSize,      \* a.maxSize
    hasLogger,    \* a.logger != nil
    events,       \* a.events: sequence of AuditEvent
    muWriter,     \* a.mu: the goroutine holding the write lock, or None
    muReaders,    \* a.mu: the goroutines holding the read lock
    pc,           \* position of each calling goroutine
    arg,          \* arguments / locals of the call a goroutine is in
    ret,          \* last value returned to each goroutine by a snapshot
    tasks,        \* the goroutines spawned by log, one record each
    \* ---- FileLogger ----
    sinkMu,       \* l.mu: index of the task holding it, 0 when free
    file,         \* the lines written to l.file, in write order
    fileClosed,   \* l.file has been closed
    closeRes,     \* result of the last Auditor.Close call, None before it
    \* ---- RotatingLogger ----
    now,          \* time.Now(), in seconds
    rlMaxSize,    \* rl.maxSize
    currentSize,  \* rl.currentSize
    currentFile,  \* rl.currentFile: [name, open]
    files,        \* the file system: name -> the lines in the file
    rotLast,      \* what the last RotatingLogger.Log call did
    rlMu,         \* rl.mu: the caller holding it, 0 when free
    lg,           \* position and locals of each goroutine calling a sink's Log
    nLogs,        \* sink Log calls started by those goroutines
    \* ---- decoders of the BPF records ----
    cx,           \* the decoder call at hand: [op, in, st, out]
    \* ---- BPFTracer ----
    bt,           \* the tracer, its reader goroutine and its consumer
    \* ---- history (not program state) ----
    appended,     \* every event handed to log, as it was when appended
    backfilled,   \* ids of the events whose ExitCode has been written
    exited,       \* pids with an exit correlated and no Command logged since
    nExits        \* LogCommandExit calls started

vars == <<maxSize, hasLogger, events, muWriter, muReaders, pc, arg, ret, tasks,
          sinkMu, file, fileClosed, closeRes,
          now, rlMaxSize, currentSize, currentFile, files, rotLast,
          rlMu, lg, nLogs, cx, bt,
          appended, backfilled, exited, nExits>>

auditorVars == <<maxSize, hasLogger, events, muWriter, muReaders, pc, arg, ret>>
sinkVars == <<sinkMu, file, fileClosed, closeRes>>
histVars == <<appended, backfilled, exited, nExits>>
callVars == <<rlMu, lg, nLogs>>
codecVars == <<cx>>
tracerVars == <<bt>>
rotVars == <<now, rlMaxSize, currentSize, currentFile, files, rotLast, callVars,
             codecVars, tracerVars>>

(***************************************************************************)
(* AuditEvent.  Only the fields the store and the sinks act on are kept:   *)
(* Type, PID and ExitCode.  id stands for the identity of the event (its   *)
(* Timestamp and payload), unique per append.                              *)
(***************************************************************************)
NewEvent(id, type, pid) ==
    [id |-> id, Type |-> type, PID |-> pid, ExitCode |-> 0]

\* json.Marshal(AuditEvent): exit_code carries `omitempty`, so the field is
\* emitted only when ExitCode is not the zero value.
Marshal(e) ==
    [id |-> e.id, type |-> e.Type, pid |-> e.PID,
     has_exit_code |-> e.ExitCode # 0,
     exit_code |-> e.ExitCode]

\* NewAuditor(logger, maxSize)
NewAuditor(m) == IF m <= 0 THEN DefaultMaxSize ELSE m

(***************************************************************************)
(* Initial state: NewFileLogger and NewAuditor have returned.              *)
(***************************************************************************)
\* second and alone are history: the call started after an exit of the same
\* pid was correlated with no Command logged since, resp. no other
\* LogCommandExit call has overlapped this one; afterClose: the append
\* started after Auditor.Close had been called.  views: the contents
\* a.events has had since the snapshot call took the read lock.
NoArg == [type |-> None, pid |-> 0, code |-> 0, idx |-> 0,
          second |-> FALSE, alone |-> FALSE, afterClose |-> FALSE,
          views |-> {}]

InitAuditor(loggers) ==
    /\ maxSize \in {NewAuditor(m) : m \in 0..MaxSizeArg}
    /\ hasLogger \in loggers
    /\ events = <<>>
    /\ muWriter = None
    /\ muReaders = {}
    /\ pc = [t \in Threads |-> "idle"]
    /\ arg = [t \in Threads |-> NoArg]
    /\ ret = [t \in Threads |-> <<>>]
    /\ tasks = <<>>
    /\ sinkMu = 0
    /\ file = <<>>
    /\ fileClosed = FALSE
    /\ closeRes = None
    /\ appended = <<>>
    /\ backfilled = {}
    /\ exited = {}
    /\ nExits = 0

(***************************************************************************)
(* a.mu (sync.RWMutex).  Lock needs no holder at all, RLock no writer.     *)
(* Go additionally holds new readers back while a writer waits; that only  *)
(* removes interleavings and is not modelled.                              *)
(***************************************************************************)
CanLock == muWriter = None /\ muReaders = {}
CanRLock == muWriter = None

(***************************************************************************)
(* Auditor.log                                                             *)
(***************************************************************************)
\* Mutant of Evict: the capacity test is off by one (> for >=).
EvictOffByOne(evs, m) == IF Len(evs) > m THEN Tail(evs) ELSE evs

\* if len(a.events) >= a.maxSize { a.events = a.events[1:] }
Evict(evs, m) == IF Len(evs) >= m THEN Tail(evs) ELSE evs

\* Mutant of Dispatch: an event that arrives while the sink is busy is not
\* handed over at all.
DispatchDropBusy(e) ==
    /\ tasks' = IF sinkMu # 0 THEN tasks
                ELSE Append(tasks, [e |-> e, st |-> "spawned", res |-> None])
    /\ UNCHANGED sinkVars

\* Mutant of Dispatch: log hands the event over only once the sink is
\* free, waiting under a.mu until then.
DispatchWhenIdle(e) ==
    /\ sinkMu = 0
    /\ tasks' = Append(tasks, [e |-> e, st |-> "spawned", res |-> None])
    /\ UNCHANGED sinkVars

\* What an append hands back to its caller: log and the four Log* methods
\* have no result, whether Close has been called before or not.
AppendResult(closedBefore) == "none"

\* go func(e AuditEvent) { a.logger.Log(e) ... }(event): one goroutine per
\* event, started with its own copy of the event; log does not wait for it
\* and does not touch the sink itself.
Dispatch(e) ==
    /\ tasks' = Append(tasks, [e |-> e, st |-> "spawned", res |-> None])
    /\ UNCHANGED sinkVars

\* The four entry points build the event and call a.log, which takes a.mu.
EnterLog(t, type, pid) ==
    /\ pc[t] = "idle"
    /\ Len(appended) < MaxAppends
    /\ CanLock
    /\ muWriter' = t
    /\ pc' = [pc EXCEPT ![t] = "log_cs"]
    /\ arg' = [arg EXCEPT ![t] = [NoArg EXCEPT !.type = type, !.pid = pid,
                                             !.afterClose = closeRes # None]]
    /\ UNCHANGED <<maxSize, hasLogger, events, muReaders, ret, tasks>>
    /\ UNCHANGED sinkVars
    /\ UNCHANGED <<histVars, rotVars>>

LogCommand(t, pid) == EnterLog(t, EventCommand, pid)
LogPortOpen(t, pid) == EnterLog(t, EventPortOpen, pid)
LogNetwork(t, pid) == EnterLog(t, EventNetwork, pid)
LogDNS(t, pid) == EnterLog(t, EventDNS, pid)

\* Body of log under a.mu: evict, append, spawn the dispatch goroutine,
\* and the deferred Unlock.
LogBody(t) ==
    /\ pc[t] = "log_cs"
    /\ LET e == NewEvent(Len(appended) + 1, arg[t].type, arg[t].pid)
       IN /\ events' = Append(Evict(events, maxSize), e)
          /\ IF hasLogger THEN Dispatch(e) ELSE UNCHANGED <<tasks, sinkVars>>
          /\ appended' = Append(appended, e)
          /\ exited' = IF e.Type = EventCommand THEN exited \ {e.PID} ELSE exited
    /\ muWriter' = None
    /\ pc' = [pc EXCEPT ![t] = "idle"]
    /\ arg' = [arg EXCEPT ![t] = NoArg]
    /\ UNCHANGED <<maxSize, hasLogger, muReaders, ret>>
    /\ UNCHANGED <<backfilled, nExits, rotVars>>

(***************************************************************************)
(* Auditor.LogCommandExit                                                  *)
(***************************************************************************)
\* The condition of the scan loop on one slot.
ExitMatch(e, pid) == e.Type = EventCommand /\ e.PID = pid /\ e.ExitCode = 0

\* for i := len(a.events) - 1; i >= 0; i-- : the first slot, from the most
\* recent down, that satisfies the condition; 0 when the loop runs out.
RECURSIVE ScanFrom(_, _, _)
ScanFrom(evs, pid, i) ==
    IF i = 0 THEN 0
    ELSE IF ExitMatch(evs[i], pid) THEN i
    ELSE ScanFrom(evs, pid, i - 1)

FindOpen(evs, pid) == ScanFrom(evs, pid, Len(evs))

\* A goroutine is inside LogCommandExit.
InExit(t) == pc[t] \in {"exit_scan", "exit_write"}

\* a.mu.RLock()
LogCommandExit(t, pid, code) ==
    /\ pc[t] = "idle"
    /\ nExits < MaxExits
    /\ CanRLock
    /\ muReaders' = muReaders \cup {t}
    /\ pc' = [pc EXCEPT ![t] = "exit_scan"]
    /\ arg' = [u \in Threads |->
                 IF u = t
                 THEN [NoArg EXCEPT !.pid = pid, !.code = code,
                                    !.second = pid \in exited,
                                    !.alone = \A v \in Threads : ~InExit(v)]
                 ELSE [arg[u] EXCEPT !.alone = FALSE]]
    /\ nExits' = nExits + 1
    /\ UNCHANGED <<maxSize, hasLogger, events, muWriter, ret, tasks>>
    /\ UNCHANGED sinkVars
    /\ UNCHANGED <<appended, backfilled, exited, rotVars>>

\* The loop finds no slot: a.mu.RUnlock() and return.
ExitScanMiss(t) ==
    /\ pc[t] = "exit_scan"
    /\ FindOpen(events, arg[t].pid) = 0
    /\ muReaders' = muReaders \ {t}
    /\ pc' = [pc EXCEPT ![t] = "idle"]
    /\ arg' = [arg EXCEPT ![t] = NoArg]
    /\ UNCHANGED <<maxSize, hasLogger, events, muWriter, ret, tasks>>
    /\ UNCHANGED sinkVars
    /\ UNCHANGED <<histVars, rotVars>>

\* The loop finds slot i; the assignment to it is a separate memory access.
ExitScanHit(t) ==
    /\ pc[t] = "exit_scan"
    /\ FindOpen(events, arg[t].pid) # 0
    /\ arg' = [arg EXCEPT ![t].idx = FindOpen(events, arg[t].pid)]
    /\ pc' = [pc EXCEPT ![t] = "exit_write"]
    /\ UNCHANGED <<maxSize, hasLogger, events, muWriter, muReaders, ret, tasks>>
    /\ UNCHANGED sinkVars
    /\ UNCHANGED <<histVars, rotVars>>

\* a.events[i].ExitCode = exitCode; break; a.mu.RUnlock()
ExitWrite(t) ==
    /\ pc[t] = "exit_write"
    /\ events' = [events EXCEPT ![arg[t].idx].ExitCode = arg[t].code]
    /\ backfilled' = backfilled \cup {events[arg[t].idx].id}
    /\ exited' = exited \cup {arg[t].pid}
    /\ muReaders' = muReaders \ {t}
    /\ pc' = [pc EXCEPT ![t] = "idle"]
    /\ arg' = [u \in Threads |->
                 IF u = t THEN NoArg
                 ELSE IF pc[u] \in {"get_cs", "bypid_cs"}
                 THEN [arg[u] EXCEPT !.views = @ \cup {events'}]
                 ELSE arg[u]]
    /\ UNCHANGED <<maxSize, hasLogger, muWriter, ret, tasks>>
    /\ UNCHANGED sinkVars
    /\ UNCHANGED <<appended, nExits, rotVars>>

(***************************************************************************)
(* Auditor.GetEvents / Auditor.GetEventsByPID                              *)
(***************************************************************************)
EnterRead(t, where, pid) ==
    /\ pc[t] = "idle"
    /\ CanRLock
    /\ muReaders' = muReaders \cup {t}
    /\ pc' = [pc EXCEPT ![t] = where]
    /\ arg' = [arg EXCEPT ![t] = [NoArg EXCEPT !.pid = pid, !.views = {events}]]
    /\ UNCHANGED <<maxSize, hasLogger, events, muWriter, ret, tasks>>
    /\ UNCHANGED sinkVars
    /\ UNCHANGED <<histVars, rotVars>>

GetEvents(t) == EnterRead(t, "get_cs", 0)
GetEventsByPID(t, pid) == EnterRead(t, "bypid_cs", pid)

\* for _, e := range a.events { if e.PID == pid { events = append(events, e) } }
FilterPID(evs, pid) == SelectSeq(evs, LAMBDA e : e.PID = pid)

LeaveRead(t, result) ==
    /\ ret' = [ret EXCEPT ![t] = result]
    /\ muReaders' = muReaders \ {t}
    /\ pc' = [pc EXCEPT ![t] = "got"]
    /\ arg' = [arg EXCEPT ![t] = NoArg]
    /\ UNCHANGED <<maxSize, hasLogger, events, muWriter, tasks>>
    /\ UNCHANGED sinkVars
    /\ UNCHANGED <<histVars, rotVars>>

\* What a read of a.events element by element can yield while
\* LogCommandExit calls, which hold the same read lock, write exit codes:
\* each element as it was at some moment since the lock was taken.
TornCopies(views) ==
    LET n == Len(events)
        elems == UNION {{v[i] : i \in 1..n} : v \in views}
    IN {r \in [1..n -> elems] : \A i \in 1..n : \E v \in views : r[i] = v[i]}

\* copy(events, a.events) and the deferred RUnlock
GetEventsCopy(t) ==
    /\ pc[t] = "get_cs"
    /\ \E r \in TornCopies(arg[t].views) : LeaveRead(t, r)

\* for _, e := range a.events { ... } and the deferred RUnlock
GetEventsByPIDCopy(t) ==
    /\ pc[t] = "bypid_cs"
    /\ \E r \in TornCopies(arg[t].views) : LeaveRead(t, FilterPID(r, arg[t].pid))

\* The caller is done with the slice it was given (the shell prints it).
Consume(t) ==
    /\ pc[t] = "got"
    /\ pc' = [pc EXCEPT ![t] = "idle"]
    /\ ret' = [ret EXCEPT ![t] = <<>>]
    /\ UNCHANGED <<maxSize, hasLogger, events, muWriter, muReaders, arg, tasks>>
    /\ UNCHANGED sinkVars
    /\ UNCHANGED <<histVars, rotVars>>

(***************************************************************************)
(* The dispatch goroutine of one event, and FileLogger.Log                 *)
(***************************************************************************)
\* Mutant of DispatchArg: the goroutine reads the slot of the store that
\* holds the event when it gets to run, instead of its own copy.
DispatchArgByRef(task) ==
    IF \E j \in DOMAIN events : events[j].id = task.e.id
    THEN events[CHOOSE j \in DOMAIN events : events[j].id = task.e.id]
    ELSE task.e

\* The event the goroutine passes to a.logger.Log: its parameter e, which
\* was copied from `event` when the go statement ran.
DispatchArg(task) == task.e

\* Results of FileLogger.Log: nil, the error of l.file.Write, or the error
\* of l.file.Sync (the line is in the file by then).
LogResults == {"ok", "write_err", "sync_err"}

\* What the file system allows on this call: a closed *os.File fails every
\* Write; an open one may succeed or fail.
WriteOutcomes == IF fileClosed THEN {"write_err"} ELSE LogResults

\* l.mu.Lock() at the start of FileLogger.Log
TaskLock(i) ==
    /\ tasks[i].st = "spawned"
    /\ sinkMu = 0
    /\ sinkMu' = i
    /\ tasks' = [tasks EXCEPT ![i].st = "inLog"]
    /\ UNCHANGED auditorVars
    /\ UNCHANGED <<file, fileClosed, closeRes>>
    /\ UNCHANGED <<histVars, rotVars>>

\* Mutant of TaskWrite: a Log call that failed is made again.
TaskWriteRetry(i, outcome) ==
    /\ tasks[i].st = "inLog"
    /\ outcome \in WriteOutcomes
    /\ file' = IF outcome = "write_err" THEN file
               ELSE Append(file, Marshal(DispatchArg(tasks[i])))
    /\ tasks' = [tasks EXCEPT ![i].st = IF outcome = "ok" THEN "done" ELSE "spawned",
                              ![i].res = outcome]
    /\ sinkMu' = 0
    /\ UNCHANGED auditorVars
    /\ UNCHANGED <<fileClosed, closeRes>>
    /\ UNCHANGED <<histVars, rotVars>>

\* json.Marshal, l.file.Write(append(data, '\n')), l.file.Sync(), the
\* deferred Unlock, and the report on stderr when the result is an error.
TaskWrite(i, outcome) ==
    /\ tasks[i].st = "inLog"
    /\ outcome \in WriteOutcomes
    /\ file' = IF outcome = "write_err" THEN file
               ELSE Append(file, Marshal(DispatchArg(tasks[i])))
    /\ tasks' = [tasks EXCEPT ![i].st = "done", ![i].res = outcome]
    /\ sinkMu' = 0
    /\ UNCHANGED auditorVars
    /\ UNCHANGED <<fileClosed, closeRes>>
    /\ UNCHANGED <<histVars, rotVars>>

\* The write never returns (a stalled file system): the goroutine stays in
\* Log, holding l.mu.
TaskStall(i) ==
    /\ tasks[i].st = "inLog"
    /\ tasks' = [tasks EXCEPT ![i].st = "stalled"]
    /\ UNCHANGED auditorVars
    /\ UNCHANGED sinkVars
    /\ UNCHANGED <<histVars, rotVars>>

(***************************************************************************)
(* Auditor.Close -> FileLogger.Close                                       *)
(***************************************************************************)
\* l.file is never reset to nil, so every call reaches l.file.Close(); os
\* returns an error for a file that is closed already.
FileLoggerClose == IF fileClosed THEN "err_closed" ELSE "nil"

Close(t) ==
    /\ pc[t] = "idle"
    /\ IF hasLogger
       THEN /\ sinkMu = 0
            /\ closeRes' = FileLoggerClose
            /\ fileClosed' = TRUE
       ELSE /\ closeRes' = "nil"
            /\ UNCHANGED fileClosed
    /\ UNCHANGED <<sinkMu, file>>
    /\ UNCHANGED auditorVars
    /\ UNCHANGED tasks
    /\ UNCHANGED <<histVars, rotVars>>


(***************************************************************************)
(* RotatingLogger                                                          *)
(***************************************************************************)
\* No decoder call is at hand.
NoCodec == [op |-> None, in |-> <<>>, st |-> "idle", out |-> <<>>]

CodecIdle == cx = NoCodec

\* The tracer NewBPFTracer returns: both channels open and empty, the
\* reader goroutine not started.  rpc, fn and ref are the reader's position,
\* the read function it is in and the address of that call's event variable
\* (0 while the variable has not been filled); heap holds the records that
\* escaped to the heap; got are the pointers the consumer has received and
\* seen what it found behind them; sent is the history of the sends.
NoTracer ==
    [eventsChan |-> <<>>, done |-> FALSE, objsClosed |-> FALSE,
     rpc |-> "unstarted", fn |-> None, ref |-> 0, heap |-> <<>>, nRead |-> 0,
     got |-> <<>>, seen |-> <<>>, sent |-> <<>>]

TracerIdle == bt = NoTracer

LogCallers == {1, 2}

NoCall == [pc |-> "idle", id |-> 0, len |-> 0, fname |-> 0]

\* No goroutine is inside a sink's Log and both sink mutexes are free.
CallersIdle ==
    /\ rlMu = 0
    /\ lg = [c \in LogCallers |-> NoCall]
    /\ nLogs = 0

\* closed: RotatingLogger.Close has returned; afterClose: it had when the
\* last Log call was made.
NoRotLast ==
    [n |-> 0, len |-> 0, need |-> FALSE, rotated |-> FALSE, existed |-> FALSE,
     res |-> None, prevName |-> 0, prevSize |-> 0,
     closed |-> FALSE, afterClose |-> FALSE]

\* The values the RotatingLogger variables keep while no RotatingLogger runs.
RotIdle ==
    /\ now = 0
    /\ rlMaxSize = 0
    /\ currentSize = 0
    /\ currentFile = [name |-> 0, open |-> FALSE]
    /\ files = <<>>
    /\ rotLast = NoRotLast
    /\ CallersIdle

\* The values the Auditor and FileLogger variables keep while none runs.
AuditorIdle ==
    /\ maxSize = 0
    /\ hasLogger = FALSE
    /\ events = <<>>
    /\ muWriter = None
    /\ muReaders = {}
    /\ pc = [t \in Threads |-> "idle"]
    /\ arg = [t \in Threads |-> NoArg]
    /\ ret = [t \in Threads |-> <<>>]
    /\ tasks = <<>>
    /\ sinkMu = 0
    /\ file = <<>>
    /\ fileClosed = FALSE
    /\ closeRes = None
    /\ appended = <<>>
    /\ backfilled = {}
    /\ exited = {}
    /\ nExits = 0

\* NewRotatingLogger: the byte threshold.
RotMaxSize(maxSizeMB) ==
    (IF maxSizeMB <= 0 THEN DefaultMaxSizeMB ELSE maxSizeMB) * MiB

\* time.Now().Format("20060102-150405") and basePath.<timestamp>.log: the
\* file name is decided by the second in which rotate runs.
RotFileName(time) == time

\* os.OpenFile(O_CREATE|O_WRONLY|O_APPEND): creates the file when it does
\* not exist and keeps what it holds when it does.
OpenAppend(fs, name) ==
    IF name \in DOMAIN fs THEN fs ELSE [x \in DOMAIN fs \cup {name} |->
                                          IF x = name THEN <<>> ELSE fs[x]]

\* The serialized lengths len(data) offered to Log, around the threshold.
LineLens(m) == {m \div 2 - 1, m \div 2, m, m + 1}

\* The state after NewRotatingLogger returned without error at second 0.
InitRot ==
    /\ AuditorIdle
    /\ now = 0
    /\ rlMaxSize \in {RotMaxSize(mb) : mb \in 0..MaxSizeMBArg}
    /\ currentSize = 0
    /\ currentFile = [name |-> RotFileName(0), open |-> TRUE]
    /\ files = OpenAppend(<<>>, RotFileName(0))
    /\ rotLast = NoRotLast
    /\ CallersIdle
    /\ CodecIdle
    /\ TracerIdle

\* if rl.currentSize+int64(len(data)) > rl.maxSize
NeedRotate(size, len, m) == size + len > m

\* One second passes.
Tick ==
    /\ now < MaxTime
    /\ now' = now + 1
    /\ UNCHANGED <<rlMaxSize, currentSize, currentFile, files, rotLast>>
    /\ UNCHANGED <<auditorVars, tasks, sinkVars, histVars, callVars, codecVars,
                 tracerVars>>

\* RotatingLogger.Log under rl.mu, for a serialized event of len bytes.
\* openOK: the OpenFile of rotate succeeds; outcome: what Write and Sync do
\* on an open file.
RotatingLog(len, openOK, outcome) ==
    /\ rotLast.n < MaxRotLogs
    /\ LET need == NeedRotate(currentSize, len, rlMaxSize)
           name == RotFileName(now)
           \* rotate(): Close the current file, then open the new name
           rotFailed == need /\ ~openOK
           handle == IF ~need THEN currentFile
                     ELSE IF openOK THEN [name |-> name, open |-> TRUE]
                     ELSE [currentFile EXCEPT !.open = FALSE]
           fs1 == IF need /\ openOK THEN OpenAppend(files, name) ELSE files
           size1 == IF need /\ openOK THEN 0 ELSE currentSize
           \* rl.currentFile.Write(append(data, '\n'))
           res == IF rotFailed THEN "rotate_err"
                  ELSE IF ~handle.open THEN "write_err"
                  ELSE outcome
           written == res \in {"ok", "sync_err"}
           line == [id |-> rotLast.n + 1, len |-> len]
       IN /\ currentFile' = handle
          /\ files' = IF written
                      THEN [fs1 EXCEPT ![handle.name] = Append(@, line)]
                      ELSE fs1
          /\ currentSize' = IF written THEN size1 + len + 1 ELSE size1
          /\ rotLast' = [n |-> rotLast.n + 1, len |-> len, need |-> need,
                         rotated |-> need /\ openOK,
                         existed |-> name \in DOMAIN files,
                         res |-> res,
                         prevName |-> currentFile.name,
                         prevSize |-> currentSize,
                         closed |-> rotLast.closed,
                         afterClose |-> rotLast.closed]
    /\ UNCHANGED <<now, rlMaxSize>>
    /\ UNCHANGED <<auditorVars, tasks, sinkVars, histVars, callVars, codecVars,
                 tracerVars>>

\* RotatingLogger.Close: rl.currentFile is never nil after construction.
RotatingClose ==
    /\ rlMu = 0
    /\ currentFile.open
    /\ currentFile' = [currentFile EXCEPT !.open = FALSE]
    /\ rotLast' = [rotLast EXCEPT !.closed = TRUE]
    /\ UNCHANGED <<now, rlMaxSize, currentSize, files>>
    /\ UNCHANGED <<auditorVars, tasks, sinkVars, histVars, callVars, codecVars,
                 tracerVars>>

NextRot ==
    \/ Tick
    \/ \E len \in LineLens(rlMaxSize), openOK \in BOOLEAN, o \in LogResults :
          RotatingLog(len, openOK, o)
    \/ RotatingClose

SpecRot == InitRot /\ [][NextRot]_vars

(***************************************************************************)
(* The two sinks step by step, under concurrent callers of Log and Close.  *)
(* os.File.Write hands the buffer to the kernel in one or more write       *)
(* calls; a line is modelled as two chunks so that a foreign write or a    *)
(* Close between them shows in the file.                                   *)
(***************************************************************************)
\* Mutant of LoggerMuFree: Lock() succeeds whoever holds the mutex.
LoggerMuIgnored(mu) == TRUE

\* l.mu.Lock() / rl.mu.Lock() can be taken.
LoggerMuFree(mu) == mu = 0

Chunk(c, part) == [id |-> lg[c].id, len |-> lg[c].len, part |-> part]

\* The caller's Log returns: the deferred Unlock runs.
LogReturn(c) == lg' = [lg EXCEPT ![c] = NoCall]

LogFrame ==
    UNCHANGED <<auditorVars, tasks, histVars, rotLast, now, rlMaxSize, codecVars,
                tracerVars>>

\* FileLogger.Log: l.mu.Lock()
FLogLock(c) ==
    /\ lg[c].pc = "idle"
    /\ nLogs < MaxLogCalls
    /\ LoggerMuFree(sinkMu)
    /\ sinkMu' = c
    /\ nLogs' = nLogs + 1
    /\ lg' = [lg EXCEPT ![c] = [pc |-> "f_write", id |-> nLogs + 1,
                               len |-> 0, fname |-> 0]]
    /\ UNCHANGED <<file, fileClosed, closeRes>>
    /\ UNCHANGED <<rlMu, currentSize, currentFile, files>>
    /\ LogFrame

\* l.file.Write(append(data, '\n')), first chunk; an error returns.
FLogWrite(c, ok) ==
    /\ lg[c].pc = "f_write"
    /\ IF ok /\ ~fileClosed
       THEN /\ file' = Append(file, Chunk(c, 1))
            /\ lg' = [lg EXCEPT ![c].pc = "f_rest"]
            /\ UNCHANGED sinkMu
       ELSE /\ LogReturn(c)
            /\ sinkMu' = 0
            /\ UNCHANGED file
    /\ UNCHANGED <<fileClosed, closeRes, nLogs>>
    /\ UNCHANGED <<rlMu, currentSize, currentFile, files>>
    /\ LogFrame

\* The rest of the same Write.
FLogWriteRest(c) ==
    /\ lg[c].pc = "f_rest"
    /\ IF ~fileClosed
       THEN /\ file' = Append(file, Chunk(c, 2))
            /\ lg' = [lg EXCEPT ![c].pc = "f_sync"]
            /\ UNCHANGED sinkMu
       ELSE /\ LogReturn(c)
            /\ sinkMu' = 0
            /\ UNCHANGED file
    /\ UNCHANGED <<fileClosed, closeRes, nLogs>>
    /\ UNCHANGED <<rlMu, currentSize, currentFile, files>>
    /\ LogFrame

\* return l.file.Sync(), and the deferred Unlock
FLogSync(c) ==
    /\ lg[c].pc = "f_sync"
    /\ LogReturn(c)
    /\ sinkMu' = 0
    /\ UNCHANGED <<file, fileClosed, closeRes, nLogs>>
    /\ UNCHANGED <<rlMu, currentSize, currentFile, files>>
    /\ LogFrame

\* FileLogger.Close called directly: Lock, l.file.Close(), Unlock.
FLogClose ==
    /\ LoggerMuFree(sinkMu)
    /\ ~fileClosed
    /\ fileClosed' = TRUE
    /\ UNCHANGED <<sinkMu, file, closeRes, callVars>>
    /\ UNCHANGED <<currentSize, currentFile, files>>
    /\ LogFrame

\* RotatingLogger.Log: rl.mu.Lock(), json.Marshal
RLogLock(c, len) ==
    /\ lg[c].pc = "idle"
    /\ nLogs < MaxLogCalls
    /\ LoggerMuFree(rlMu)
    /\ rlMu' = c
    /\ nLogs' = nLogs + 1
    /\ lg' = [lg EXCEPT ![c] = [pc |-> "r_check", id |-> nLogs + 1,
                               len |-> len, fname |-> 0]]
    /\ UNCHANGED <<currentSize, currentFile, files>>
    /\ UNCHANGED sinkVars
    /\ LogFrame

\* if rl.currentSize+int64(len(data)) > rl.maxSize
RLogCheck(c) ==
    /\ lg[c].pc = "r_check"
    /\ lg' = [lg EXCEPT ![c].pc =
                 IF NeedRotate(currentSize, lg[c].len, rlMaxSize)
                 THEN "r_rotate" ELSE "r_write"]
    /\ UNCHANGED <<rlMu, nLogs, currentSize, currentFile, files>>
    /\ UNCHANGED sinkVars
    /\ LogFrame

\* rl.rotate(): close the current file, open the file named by the second,
\* reset the counter; an OpenFile error returns from Log.
RLogRotate(c, openOK) ==
    /\ lg[c].pc = "r_rotate"
    /\ IF openOK
       THEN /\ currentFile' = [name |-> RotFileName(now), open |-> TRUE]
            /\ files' = OpenAppend(files, RotFileName(now))
            /\ currentSize' = 0
            /\ lg' = [lg EXCEPT ![c].pc = "r_write"]
            /\ UNCHANGED rlMu
       ELSE /\ currentFile' = [currentFile EXCEPT !.open = FALSE]
            /\ LogReturn(c)
            /\ rlMu' = 0
            /\ UNCHANGED <<files, currentSize>>
    /\ UNCHANGED nLogs
    /\ UNCHANGED sinkVars
    /\ LogFrame

\* rl.currentFile.Write(append(data, '\n')), first chunk.
RLogWrite(c, ok) ==
    /\ lg[c].pc = "r_write"
    /\ IF ok /\ currentFile.open
       THEN /\ files' = [files EXCEPT ![currentFile.name] = Append(@, Chunk(c, 1))]
            /\ lg' = [lg EXCEPT ![c].pc = "r_rest", ![c].fname = currentFile.name]
            /\ UNCHANGED rlMu
       ELSE /\ LogReturn(c)
            /\ rlMu' = 0
            /\ UNCHANGED files
    /\ UNCHANGED <<nLogs, currentSize, currentFile>>
    /\ UNCHANGED sinkVars
    /\ LogFrame

\* The rest of the same Write, to whatever rl.currentFile is by now.
RLogWriteRest(c) ==
    /\ lg[c].pc = "r_rest"
    /\ IF currentFile.open
       THEN /\ files' = [files EXCEPT ![currentFile.name] = Append(@, Chunk(c, 2))]
            /\ lg' = [lg EXCEPT ![c].pc = "r_count"]
            /\ UNCHANGED rlMu
       ELSE /\ LogReturn(c)
            /\ rlMu' = 0
            /\ UNCHANGED files
    /\ UNCHANGED <<nLogs, currentSize, currentFile>>
    /\ UNCHANGED sinkVars
    /\ LogFrame

\* rl.currentSize += int64(len(data)) + 1
RLogCount(c) ==
    /\ lg[c].pc = "r_count"
    /\ currentSize' = currentSize + lg[c].len + 1
    /\ lg' = [lg EXCEPT ![c].pc = "r_sync"]
    /\ UNCHANGED <<rlMu, nLogs, currentFile, files>>
    /\ UNCHANGED sinkVars
    /\ LogFrame

\* return rl.currentFile.Sync(), and the deferred Unlock
RLogSync(c) ==
    /\ lg[c].pc = "r_sync"
    /\ LogReturn(c)
    /\ rlMu' = 0
    /\ UNCHANGED <<nLogs, currentSize, currentFile, files>>
    /\ UNCHANGED sinkVars
    /\ LogFrame

\* RotatingLogger.Close called directly: Lock, rl.currentFile.Close(), Unlock.
RLogClose ==
    /\ LoggerMuFree(rlMu)
    /\ currentFile.open
    /\ currentFile' = [currentFile EXCEPT !.open = FALSE]
    /\ UNCHANGED <<currentSize, files, callVars>>
    /\ UNCHANGED sinkVars
    /\ LogFrame

\* Both sinks constructed, nothing written, no Auditor in front of them.
InitLog ==
    /\ InitRot
    /\ rlMaxSize = RotMaxSize(MaxSizeMBArg)

NextLog ==
    \/ \E c \in LogCallers : FLogLock(c)
    \/ \E c \in LogCallers, ok \in BOOLEAN : FLogWrite(c, ok)
    \/ \E c \in LogCallers : FLogWriteRest(c)
    \/ \E c \in LogCallers : FLogSync(c)
    \/ FLogClose
    \/ \E c \in LogCallers, len \in LineLens(rlMaxSize) : RLogLock(c, len)
    \/ \E c \in LogCallers : RLogCheck(c)
    \/ \E c \in LogCallers, openOK \in BOOLEAN : RLogRotate(c, openOK)
    \/ \E c \in LogCallers, ok \in BOOLEAN : RLogWrite(c, ok)
    \/ \E c \in LogCallers : RLogWriteRest(c)
    \/ \E c \in LogCallers : RLogCount(c)
    \/ \E c \in LogCallers : RLogSync(c)
    \/ RLogClose
    \/ Tick

SpecLog == InitLog /\ [][NextLog]_vars

(***************************************************************************)
(* The decoders of the BPF records (package bpf).  Bytes are naturals      *)
(* below 256, byte slices are sequences; a Go index i is position i + 1.   *)
(***************************************************************************)
\* bytesToString: the bytes before the first NUL, all of them if none.
bytesToString(b) ==
    LET z == {i \in DOMAIN b : b[i] = 0}
    IN IF z = {} THEN b
       ELSE SubSeq(b, 1, (CHOOSE i \in z : \A j \in z : i <= j) - 1)

\* A uint32 is kept as its two 16-bit halves [h, l], value h * 65536 + l.
Uint32(n) == [h |-> (n \div 65536) % 65536, l |-> n % 65536]

\* x + y in uint32 arithmetic (modulo 2^32).
AddUint32(x, y) ==
    [h |-> (x.h + y.h + (x.l + y.l) \div 65536) % 65536,
     l |-> (x.l + y.l) % 65536]

\* x > n and x < n for a uint32 x and a small natural n.
GtUint32(x, n) == x.h > 0 \/ x.l > n
LtUint32(x, n) == x.h = 0 /\ x.l < n

\* binary.LittleEndian.Uint32(argData[off : off+4])
LittleEndianUint32(b, off) ==
    [h |-> b[off + 3] + 256 * b[off + 4], l |-> b[off + 1] + 256 * b[off + 2]]

\* Mutant of ParseArgs: the length prefix is not checked against the end
\* of the region before it is read past offset 508.
RECURSIVE ParseArgsNoPrefixCheck(_, _, _, _, _)
ParseArgsNoPrefixCheck(argData, argCount, i, offset, args) ==
    IF i >= argCount \/ offset >= ArgsLen - 8
    THEN [st |-> "returned", args |-> args]
    ELSE LET strLen == LittleEndianUint32(argData, offset)
             off2 == offset + 4
             hi == AddUint32(Uint32(off2), strLen)
         IN IF GtUint32(hi, ArgsLen) THEN [st |-> "returned", args |-> args]
            ELSE IF LtUint32(hi, off2) THEN [st |-> "panicked", args |-> args]
            ELSE ParseArgsNoPrefixCheck(argData, argCount, i + 1, hi.l,
                    Append(args, bytesToString(SubSeq(argData, off2 + 1, hi.l))))

\* The loop of ParseExecveEvent from iteration i on.  offset never exceeds
\* 512, so offset + 4 cannot wrap; offset + strLen can.
\* A slice expression argData[low : high] with low > high panics.
RECURSIVE ParseArgs(_, _, _, _, _)
ParseArgs(argData, argCount, i, offset, args) ==
    IF i >= argCount \/ offset >= ArgsLen \/ offset + 4 > ArgsLen
    THEN [st |-> "returned", args |-> args]
    ELSE LET strLen == LittleEndianUint32(argData, offset)
             off2 == offset + 4
             hi == AddUint32(Uint32(off2), strLen)
         IN IF GtUint32(hi, ArgsLen) THEN [st |-> "returned", args |-> args]
            ELSE IF LtUint32(hi, off2) THEN [st |-> "panicked", args |-> args]
            ELSE ParseArgs(argData, argCount, i + 1, hi.l,
                    Append(args, bytesToString(SubSeq(argData, off2 + 1, hi.l))))

\* The length words laid out in records: short ones, ones that end at or
\* just past the end of the region, and ones near 2^32.
LenWords ==
    {Uint32(0), Uint32(1), Uint32(4), Uint32(5), Uint32(500),
     [h |-> 65535, l |-> 65532], [h |-> 65535, l |-> 65535]}

BodyKinds == {"plain", "nul"}

Uint32Bytes(w) == <<w.l % 256, w.l \div 256, w.h % 256, w.h \div 256>>

\* The body laid out after a length word: letters, with a NUL in second
\* place for kind "nul"; never more than the region can hold.
BodyBytes(w, kind) ==
    [i \in 1..(IF LtUint32(w, ArgsLen) THEN w.l ELSE ArgsLen) |->
        IF kind = "nul" /\ i = 2 THEN 0 ELSE 97]

RECURSIVE LayOut(_)
LayOut(entries) ==
    IF entries = <<>> THEN <<>>
    ELSE Uint32Bytes(entries[1].w) \o BodyBytes(entries[1].w, entries[1].kind)
            \o LayOut(Tail(entries))

\* The 512-byte region: the entries from offset 0, cut at the end of the
\* region, the rest zero as the BPF program leaves it.
Region(entries) ==
    LET b == LayOut(entries)
    IN [i \in 1..ArgsLen |-> IF i <= Len(b) THEN b[i] ELSE 0]

EntrySeqs ==
    UNION {[1..n -> [w : LenWords, kind : BodyKinds]] : n \in 0..MaxEntries}

ExecveInputs ==
    {[op |-> "execve", in |-> [ArgCount |-> n, Args |-> Region(es)],
      st |-> "ready", out |-> <<>>] : n \in 0..MaxArgCount, es \in EntrySeqs}

CodecFrame == UNCHANGED <<auditorVars, tasks, sinkVars, histVars, now, rlMaxSize,
                          currentSize, currentFile, files, rotLast, callVars,
                          tracerVars>>

\* ParseExecveEvent(e): the args result, or the panic.
ParseExecveEvent ==
    /\ cx.op = "execve" /\ cx.st = "ready"
    /\ LET r == ParseArgs(cx.in.Args, cx.in.ArgCount, 0, 0, <<>>)
       IN cx' = [cx EXCEPT !.st = r.st, !.out = r.args]
    /\ CodecFrame

InitExecve == AuditorIdle /\ RotIdle /\ TracerIdle /\ cx \in ExecveInputs

NextExecve == ParseExecveEvent

SpecExecve == InitExecve /\ [][NextExecve]_vars

(***************************************************************************)
(* The port of a bind / connect record, from the sockaddr of the system    *)
(* call to the int the decoder returns.  The binaries are built for amd64  *)
(* and arm64: a uint16 in memory has its low byte first.                   *)
(***************************************************************************)
\* The value of a uint16 field whose two bytes in memory are b.
LoadUint16(b) == b[1] + 256 * b[2]

\* The two bytes in memory of a uint16 field of value x.
StoreUint16(x) == <<x % 256, x \div 256>>

\* Mutant of bswap16: the BPF program copies sin_port as it is.
bswap16Missing(x) == x

\* __builtin_bswap16
bswap16(x) == (x % 256) * 256 + x \div 256

\* get_ip_addr: *port = __builtin_bswap16(sin->sin_port), for the sockaddr
\* whose sin_port bytes are wire.
get_ip_addr_port(wire) == bswap16(LoadUint16(wire))

\* port = int(e.Port) / dstPort = int(e.DstPort)
PortToInt(port) == port

PortBytes == {0, 1, 31, 80, 127, 128, 144, 187, 255}

\* A bind or connect system call whose sockaddr carries the port bytes
\* wire, in network order.
PortInputs ==
    {[op |-> o, in |-> [wire |-> <<hi, lo>>, Port |-> 0], st |-> "ready",
      out |-> <<>>] : o \in {"bind", "connect"}, hi \in PortBytes, lo \in PortBytes}

\* trace_bind / trace_connect fill the record and emit it.
TraceSockaddr(o) ==
    /\ cx.op = o /\ cx.st = "ready"
    /\ cx' = [cx EXCEPT !.st = "recorded",
                        !.in.Port = get_ip_addr_port(cx.in.wire)]
    /\ CodecFrame

trace_bind == TraceSockaddr("bind")
trace_connect == TraceSockaddr("connect")

\* ParseBindEvent / ParseConnectEvent: the port result.
ParsePort(o) ==
    /\ cx.op = o /\ cx.st = "recorded"
    /\ cx' = [cx EXCEPT !.st = "returned", !.out = <<PortToInt(cx.in.Port)>>]
    /\ CodecFrame

ParseBindEvent == ParsePort("bind")
ParseConnectEvent == ParsePort("connect")

InitPort == AuditorIdle /\ RotIdle /\ TracerIdle /\ cx \in PortInputs

NextPort ==
    \/ trace_bind
    \/ trace_connect
    \/ ParseBindEvent
    \/ ParseConnectEvent

SpecPort == InitPort /\ [][NextPort]_vars

(***************************************************************************)
(* ipToString.  A rendered address is kept as its form and the numbers     *)
(* the text is made of: four decimal bytes, or eight 16-bit groups.        *)
(***************************************************************************)
\* The test ipToString makes: b[0..9] zero, b[10] and b[11] 0xff.
IsV4Mapped(b) == (\A i \in 1..10 : b[i] = 0) /\ b[11] = 255 /\ b[12] = 255

Dotted(a, b, c, d) == [form |-> "dotted", parts |-> <<a, b, c, d>>]

\* net.IP(b).String() for a 16-byte b: dotted when b.To4() is not nil, which
\* is the same 12-byte test, an IPv6 literal of the eight groups otherwise.
NetIPString(b) ==
    IF IsV4Mapped(b) THEN Dotted(b[13], b[14], b[15], b[16])
    ELSE [form |-> "ipv6",
          parts |-> [g \in 1..8 |-> b[2 * g - 1] * 256 + b[2 * g]]]

\* Mutant of ipToString: only the two 0xff bytes are tested.
ipToStringLoose(b) ==
    IF b[11] = 255 /\ b[12] = 255 THEN Dotted(b[13], b[14], b[15], b[16])
    ELSE NetIPString(b)

\* net.IPv4(b[12], b[13], b[14], b[15]).String() or net.IP(b).String()
ipToString(b) ==
    IF IsV4Mapped(b) THEN Dotted(b[13], b[14], b[15], b[16])
    ELSE NetIPString(b)

V4Prefix == [i \in 1..12 |-> IF i <= 10 THEN 0 ELSE 255]

\* The prefix with the bytes at the positions in flips replaced: by 1 or
\* 255 (alt 1 or 2) in the zero part, by 0 or 254 in the 0xff part.
Flipped(flips, alt) ==
    [i \in 1..12 |->
        IF i \notin flips THEN V4Prefix[i]
        ELSE IF i <= 10 THEN (IF alt = 1 THEN 1 ELSE 255)
        ELSE (IF alt = 1 THEN 0 ELSE 254)]

AddrTails == {<<192, 168, 1, 1>>, <<0, 0, 0, 0>>, <<255, 255, 255, 254>>}

AddrInputs ==
    {[op |-> "addr", in |-> Flipped(flips, alt) \o tail, st |-> "ready",
      out |-> <<>>] :
        flips \in {f \in SUBSET (1..12) : Cardinality(f) <= MaxFlips},
        alt \in {1, 2}, tail \in AddrTails}

\* address = ipToString(e.Address[:])
DecodeAddress ==
    /\ cx.op = "addr" /\ cx.st = "ready"
    /\ cx' = [cx EXCEPT !.st = "returned", !.out = ipToString(cx.in)]
    /\ CodecFrame

InitAddr == AuditorIdle /\ RotIdle /\ TracerIdle /\ cx \in AddrInputs

NextAddr == DecodeAddress

SpecAddr == InitAddr /\ [][NextAddr]_vars

(***************************************************************************)
(* The address of a bind / connect record, from an AF_INET sockaddr to the *)
(* text the decoder returns.                                               *)
(***************************************************************************)
\* get_ip_addr, AF_INET branch, on the zeroed 16-byte field of the record:
\* memcpy(out, &sin->sin_addr, 4); memset(out + 4, 0, 10);
\* out[10] = 0xff; out[11] = 0xff.  Go index i is position i + 1.
get_ip_addr_inet(sin_addr) ==
    [i \in 1..16 |->
        IF i <= 4 THEN sin_addr[i]
        ELSE IF i \in {11, 12} THEN 255
        ELSE 0]

InetBytes == {0, 1, 127, 168, 192, 255}

\* A bind or connect system call on the IPv4 address sin_addr.
InetInputs ==
    {[op |-> "inet",
      in |-> [sin_addr |-> <<a, b, c, d>>, Address |-> [i \in 1..16 |-> 0]],
      st |-> "ready", out |-> <<>>] :
        a \in InetBytes, b \in InetBytes, c \in InetBytes, d \in InetBytes}

\* trace_bind / trace_connect: get_ip_addr(addr, event.address, &event.port)
TraceInetAddress ==
    /\ cx.op = "inet" /\ cx.st = "ready"
    /\ cx' = [cx EXCEPT !.st = "recorded",
                        !.in.Address = get_ip_addr_inet(cx.in.sin_addr)]
    /\ CodecFrame

\* ParseBindEvent / ParseConnectEvent: ipToString of the address field.
ParseInetAddress ==
    /\ cx.op = "inet" /\ cx.st = "recorded"
    /\ cx' = [cx EXCEPT !.st = "returned", !.out = ipToString(cx.in.Address)]
    /\ CodecFrame

InitInet == AuditorIdle /\ RotIdle /\ TracerIdle /\ cx \in InetInputs

NextInet == TraceInetAddress \/ ParseInetAddress

SpecInet == InitInet /\ [][NextInet]_vars

(***************************************************************************)
(* BPFTracer: the reader goroutine that Start launches, the events channel *)
(* and a consumer of Events().  src/internal/bpf/bpf.go:72-180             *)
(*                                                                         *)
(* SpecTracer     : the tracer, its reader and a consumer, any schedule.   *)
(* SpecTracerFair : the same with the reader goroutine scheduled whenever  *)
(*                  it can run; the consumer and the caller of Close are   *)
(*                  free to do nothing.                                    *)
(***************************************************************************)
\* Records the maps hand out in one behaviour: enough to fill the channel
\* and leave the reader with one more to send.
MaxReads == EventsChanCap + 2

\* The order in which readEvents calls the three read functions.
NextReadFn(fn) ==
    IF fn = "execve" THEN "connect" ELSE IF fn = "connect" THEN "bind" ELSE None

TracerFrame == UNCHANGED <<auditorVars, tasks, sinkVars, histVars, now, rlMaxSize,
                           currentSize, currentFile, files, rotLast, callVars,
                           codecVars>>

\* Start, when every Attach succeeds: go bt.readEvents().
Start ==
    /\ bt.rpc = "unstarted"
    /\ bt' = [bt EXCEPT !.rpc = "select"]
    /\ TracerFrame

\* readEvents: one evaluation of the select.  A closed done channel is
\* ready, so its case is taken; otherwise the default branch calls
\* readExecveEvents, whose "var event" is a new variable of that call.
ReadEventsSelect ==
    /\ bt.rpc = "select"
    /\ bt' = IF bt.done
             THEN [bt EXCEPT !.rpc = "returned"]
             ELSE [bt EXCEPT !.rpc = "read", !.fn = "execve", !.ref = 0]
    /\ TracerFrame

\* bt.objs.<Map>.Read(&event, nil) in readExecveEvents, readConnectEvents
\* and readBindEvents.  ok: the map has a record, which is stored in the
\* event variable of this call (the same variable in every iteration of the
\* loop, on the heap since its address is sent); otherwise the loop breaks
\* and the next read function, or the select, follows.
ReadRecord(ok) ==
    /\ bt.rpc = "read"
    /\ ok => (~bt.objsClosed /\ bt.nRead < MaxReads)
    /\ bt' = IF ok
             THEN LET rec == [kind |-> bt.fn, seq |-> bt.nRead + 1]
                  IN IF bt.ref = 0
                     THEN [bt EXCEPT !.heap = Append(@, rec),
                                     !.ref = Len(bt.heap) + 1,
                                     !.nRead = @ + 1, !.rpc = "send"]
                     ELSE [bt EXCEPT !.heap[bt.ref] = rec,
                                     !.nRead = @ + 1, !.rpc = "send"]
             ELSE IF bt.fn = "bind"
                  THEN [bt EXCEPT !.rpc = "select", !.fn = None, !.ref = 0]
                  ELSE [bt EXCEPT !.fn = NextReadFn(bt.fn), !.ref = 0]
    /\ TracerFrame

\* bt.eventsChan <- &event: blocks while the channel is full.
SendEvent ==
    /\ bt.rpc = "send"
    /\ Len(bt.eventsChan) < EventsChanCap
    /\ bt' = [bt EXCEPT !.eventsChan = Append(@, bt.ref),
                        !.sent = Append(@, [ref |-> bt.ref, rec |-> bt.heap[bt.ref]]),
                        !.rpc = "read"]
    /\ TracerFrame

\* A consumer receives from Events().
Receive ==
    /\ bt.eventsChan # <<>>
    /\ bt' = [bt EXCEPT !.eventsChan = Tail(@), !.got = Append(@, Head(bt.eventsChan))]
    /\ TracerFrame

\* The consumer reads the record behind the oldest pointer it has received
\* and not yet looked at (ParseExecveEvent and the like).
Observe ==
    /\ Len(bt.seen) < Len(bt.got)
    /\ bt' = [bt EXCEPT !.seen = Append(@, bt.heap[bt.got[Len(bt.seen) + 1]])]
    /\ TracerFrame

\* BPFTracer.Close: close(bt.done); bt.objs.Close().
TracerClose ==
    /\ ~bt.done
    /\ bt' = [bt EXCEPT !.done = TRUE, !.objsClosed = TRUE]
    /\ TracerFrame

InitTracer == AuditorIdle /\ RotIdle /\ CodecIdle /\ TracerIdle

\* The steps of the readEvents goroutine.
ReaderStep ==
    \/ ReadEventsSelect
    \/ \E ok \in BOOLEAN : ReadRecord(ok)
    \/ SendEvent

NextTracer ==
    \/ Start
    \/ ReaderStep
    \/ Receive
    \/ Observe
    \/ TracerClose

SpecTracer == InitTracer /\ [][NextTracer]_vars

\* The Go scheduler runs a goroutine that is not blocked.
SpecTracerFair == SpecTracer /\ WF_vars(ReaderStep)

(***************************************************************************)
(* Spec: the store under concurrent producers and readers.  The dispatch   *)
(* goroutines are spawned and left unscheduled; the sink is in SpecSink.   *)
(* Events of the kinds that LogCommandExit skips carry one pid.            *)
(***************************************************************************)
Init == InitAuditor({TRUE}) /\ RotIdle /\ CodecIdle /\ TracerIdle

Next ==
    \/ \E t \in Threads, pid \in Pids : LogCommand(t, pid)
    \/ \E t \in Threads : LogPortOpen(t, 1)
    \/ \E t \in Threads : LogNetwork(t, 1)
    \/ \E t \in Threads : LogDNS(t, 1)
    \/ \E t \in Threads : LogBody(t)
    \/ \E t \in Threads, pid \in Pids, code \in ExitCodes : LogCommandExit(t, pid, code)
    \/ \E t \in Threads : ExitScanMiss(t)
    \/ \E t \in Threads : ExitScanHit(t)
    \/ \E t \in Threads : ExitWrite(t)
    \/ \E t \in Threads : GetEvents(t)
    \/ \E t \in Threads, pid \in Pids : GetEventsByPID(t, pid)
    \/ \E t \in Threads : GetEventsCopy(t)
    \/ \E t \in Threads : GetEventsByPIDCopy(t)
    \/ \E t \in Threads : Consume(t)

Spec == Init /\ [][Next]_vars

(***************************************************************************)
(* SpecSink: producers, the dispatch goroutines and the FileLogger.  The   *)
(* sink does not look at the kind or the pid of an event, so producers log *)
(* commands of one pid and report one exit code.                           *)
(***************************************************************************)
InitSink == InitAuditor(BOOLEAN) /\ RotIdle /\ CodecIdle /\ TracerIdle

NextSink ==
    \/ \E t \in Threads : LogCommand(t, 1)
    \/ \E t \in Threads : LogBody(t)
    \/ \E t \in Threads : LogCommandExit(t, 1, 1)
    \/ \E t \in Threads : ExitScanMiss(t)
    \/ \E t \in Threads : ExitScanHit(t)
    \/ \E t \in Threads : ExitWrite(t)
    \/ \E t \in Threads : GetEvents(t)
    \/ \E t \in Threads : GetEventsCopy(t)
    \/ \E t \in Threads : Consume(t)
    \/ \E i \in DOMAIN tasks : TaskLock(i)
    \/ \E i \in DOMAIN tasks, o \in LogResults : TaskWrite(i, o)
    \/ \E i \in DOMAIN tasks : TaskStall(i)
    \/ \E t \in Threads : Close(t)

SpecSink == InitSink /\ [][NextSink]_vars

(***************************************************************************)
(* Properties of the store (checked under Spec)                            *)
(***************************************************************************)
\* What identifies a stored event whatever its exit code has become.
Identity(e) == [id |-> e.id, Type |-> e.Type, PID |-> e.PID]

Min(a, b) == IF a < b THEN a ELSE b

\* C1 -- FIFO eviction law.  In every reachable state the store holds at
\* most maxSize events, and it holds exactly the last min(n, maxSize) of
\* the n events appended so far, in append order: an append on a full
\* store removed the oldest event and nothing else.
FifoEvictionLaw ==
    LET n == Len(appended)
        k == Min(n, maxSize)
    IN /\ Len(events) <= maxSize
       /\ Len(events) = k
       /\ \A i \in 1..k : Identity(events[i]) = Identity(appended[n - k + i])

\* C1 witness: more events were appended than a store of two or more slots
\* holds, so an eviction happened and the order of the survivors matters.
FifoEvictionSeen ==
    /\ maxSize >= 2
    /\ Len(appended) > maxSize
    /\ Len(events) = maxSize

\* The slot correlate_exit is specified to write: the most recent Command
\* of the pid whose exit code has not been backfilled; 0 when there is none.
RECURSIVE UnfilledFrom(_, _, _, _)
UnfilledFrom(evs, filled, pid, i) ==
    IF i = 0 THEN 0
    ELSE IF evs[i].Type = EventCommand /\ evs[i].PID = pid /\ evs[i].id \notin filled
         THEN i
         ELSE UnfilledFrom(evs, filled, pid, i - 1)

SpecTarget(evs, filled, pid) == UnfilledFrom(evs, filled, pid, Len(evs))

\* C2, C3 and C4 are stated for calls of LogCommandExit that no other call
\* of LogCommandExit overlaps (arg[t].alone), so that a violation is one of
\* a plain sequence of calls.

\* C2 -- correlate_exit(pid, code), for every code including 0, writes the
\* exit code of exactly the most recent Command of that pid that has not
\* been backfilled and leaves every other event, and the length and order
\* of the window, as they were; with no such Command it changes nothing.
CorrelateExitLaw ==
    [][\A t \in Threads :
          /\ (ExitWrite(t) /\ arg[t].alone) =>
                LET i == SpecTarget(events, backfilled, arg[t].pid)
                IN events' = IF i = 0 THEN events
                             ELSE [events EXCEPT ![i].ExitCode = arg[t].code]
          /\ (ExitScanMiss(t) /\ arg[t].alone) =>
                SpecTarget(events, backfilled, arg[t].pid) = 0]_vars

\* C3 -- idempotence boundary.  Once a call for a pid has set an exit code,
\* a further call for the same pid, with no Command of that pid appended in
\* between, changes nothing in the store.
CorrelateExitIdempotent ==
    [][\A t \in Threads :
          (ExitWrite(t) /\ arg[t].second /\ arg[t].alone) =>
             events' = events]_vars

\* C4 -- the exit code of a stored event is written at most once: once it
\* has been backfilled, with any value, it keeps that value for as long as
\* the event stays in the window.
ExitCodeWrittenOnce ==
    [][(\A t \in Threads : ExitWrite(t) => arg[t].alone) =>
          \A i \in DOMAIN events :
             events[i].id \in backfilled =>
                \A j \in DOMAIN events' :
                   events'[j].id = events[i].id =>
                      events'[j].ExitCode = events[i].ExitCode]_vars

\* A goroutine is about to change the window (append with eviction, or the
\* assignment of an exit code), resp. is inside a snapshot's copy.
InMutation(t) == pc[t] \in {"log_cs", "exit_write"}
InCopy(t) == pc[t] \in {"get_cs", "bypid_cs"}

\* C5 -- mutual exclusion of the store: no two goroutines are inside a
\* mutating critical section at once, and none copies the window while
\* another is inside a mutating critical section.
StoreMutualExclusion ==
    \A t, u \in Threads :
       t # u => /\ ~(InMutation(t) /\ InMutation(u))
                /\ ~(InMutation(t) /\ InCopy(u))

\* C9 -- the serialized line of a stored Command carries exit_code exactly
\* when its exit code has been backfilled, whatever the value.
ExitCodeFieldPresence ==
    \A i \in DOMAIN events :
       events[i].Type = EventCommand =>
          (Marshal(events[i]).has_exit_code <=> events[i].id \in backfilled)

(***************************************************************************)
(* Properties of the dispatch to the sink (checked under SpecSink)         *)
(***************************************************************************)
AllDispatchDone == \A i \in DOMAIN tasks : tasks[i].st = "done"

TasksOf(k) == {i \in DOMAIN tasks : tasks[i].e.id = k}
LinesOf(k) == {j \in DOMAIN file : file[j].id = k}

\* C6 -- persistence completeness.  With a sink attached, once every
\* dispatch goroutine has finished, every appended event was handed to the
\* sink exactly once and is accounted for: Log returned nil and the file
\* holds exactly one line of it, or Log returned an error, which was
\* reported, and the file holds at most one line of it (none when the write
\* itself failed).  The file holds no line of anything else.
PersistenceComplete ==
    (hasLogger /\ AllDispatchDone) =>
       /\ \A k \in 1..Len(appended) :
             /\ Cardinality(TasksOf(k)) = 1
             /\ \A i \in TasksOf(k) :
                   /\ tasks[i].res \in LogResults
                   /\ tasks[i].res = "ok" => Cardinality(LinesOf(k)) = 1
                   /\ tasks[i].res = "sync_err" => Cardinality(LinesOf(k)) = 1
                   /\ tasks[i].res = "write_err" => LinesOf(k) = {}
             /\ \A j \in LinesOf(k) : file[j] = Marshal(appended[k])
       /\ \A j \in DOMAIN file : file[j].id \in 1..Len(appended)

\* C6 witness: two producers are back from their appends, every dispatch
\* has finished, one with a persisted line and one with a reported fault.
PersistenceCompleteSeen ==
    /\ hasLogger /\ AllDispatchDone
    /\ \A t \in Threads : pc[t] = "idle"
    /\ Len(appended) >= 2
    /\ \E i \in DOMAIN tasks : tasks[i].res = "ok"
    /\ \E i \in DOMAIN tasks : tasks[i].res = "write_err"

\* One step of the store operation a goroutine is in.
StoreStep(t) ==
    \/ LogBody(t)
    \/ ExitScanMiss(t)
    \/ ExitScanHit(t)
    \/ ExitWrite(t)
    \/ GetEventsCopy(t)
    \/ GetEventsByPIDCopy(t)

HoldsStoreLock(t) == muWriter = t \/ t \in muReaders

InStoreOp(t) ==
    pc[t] \in {"log_cs", "exit_scan", "exit_write", "get_cs", "bypid_cs"}

\* C7 -- no producer backpressure.  a.mu is held only by a goroutine that
\* is inside a store operation, and whoever holds it can take its next
\* step, which for an append completes it and releases the lock, whatever
\* the dispatch goroutines and the sink are doing, in particular while a
\* sink write is stalled or has failed.
NoBackpressure ==
    \A t \in Threads :
       /\ HoldsStoreLock(t) <=> InStoreOp(t)
       /\ HoldsStoreLock(t) => ENABLED StoreStep(t)

\* C7 witness: a sink write is stalled inside Log, holding the sink's
\* mutex, while a producer is inside log with a.mu held.
BackpressureCaseSeen ==
    /\ \E i \in DOMAIN tasks : tasks[i].st = "stalled"
    /\ \E t \in Threads : pc[t] = "log_cs"

\* C8 -- dispatch by copy.  What a dispatch goroutine hands to the sink,
\* and every line the sink has written, is the event as it was when it was
\* appended, whatever has happened to its slot in the store since.
DispatchByCopy ==
    /\ \A i \in DOMAIN tasks :
          DispatchArg(tasks[i]) = appended[tasks[i].e.id]
    /\ \A j \in DOMAIN file :
          /\ file[j].id \in 1..Len(appended)
          /\ file[j] = Marshal(appended[file[j].id])

Pending(i) == tasks[i].st \in {"spawned", "inLog"}

\* C8 witness: two dispatches have not written yet; the stored event of one
\* has had its exit code backfilled, the event of the other was evicted.
DispatchByCopySeen ==
    /\ \E i \in DOMAIN tasks :
          /\ Pending(i)
          /\ \E j \in DOMAIN events :
                events[j].id = tasks[i].e.id /\ events[j].ExitCode # 0
    /\ \E i \in DOMAIN tasks :
          /\ Pending(i)
          /\ \A j \in DOMAIN events : events[j].id # tasks[i].e.id

(***************************************************************************)
(* Properties of the RotatingLogger (checked under SpecRot)                *)
(***************************************************************************)
\* The last Log call put its line into a file.
RotWritten == rotLast.res \in {"ok", "sync_err"}

RotLastLine == [id |-> rotLast.n, len |-> rotLast.len]

\* The files that hold a line of Log call k.
FilesOf(k) == {f \in DOMAIN files : \E j \in DOMAIN files[f] : files[f][j].id = k}

\* C10 -- rotation rule.  A line that is written when the byte total of the
\* current file plus its serialized size exceeds the threshold goes, whole,
\* to a new file opened for it, which then holds that line and nothing
\* else, and the byte counter is then the size of that one write; any other
\* line is appended, whole, to the current file.  No line is in two files.
RotationRule ==
    /\ RotWritten =>
          IF rotLast.need
          THEN /\ rotLast.rotated
               /\ files[currentFile.name] = <<RotLastLine>>
               /\ currentSize = rotLast.len + 1
          ELSE /\ currentFile.name = rotLast.prevName
               /\ files[currentFile.name] # <<>>
               /\ files[currentFile.name][Len(files[currentFile.name])] = RotLastLine
               /\ currentSize = rotLast.prevSize + rotLast.len + 1
    /\ \A k \in 1..rotLast.n : Cardinality(FilesOf(k)) <= 1

(***************************************************************************)
(* Properties of the sinks under concurrent callers (checked under         *)
(* SpecLog)                                                                *)
(***************************************************************************)
InFileLog(c) == lg[c].pc \in {"f_write", "f_rest", "f_sync"}

InRotLog(c) ==
    lg[c].pc \in {"r_check", "r_rotate", "r_write", "r_rest", "r_count", "r_sync"}

\* Every line of the file is the two chunks of one Write, one after the
\* other; only the Write in progress may still miss its second chunk.
CompleteLines(lines) ==
    \A j \in DOMAIN lines :
       /\ lines[j].part = 1 =>
             \/ j < Len(lines) /\ lines[j + 1] = [lines[j] EXCEPT !.part = 2]
             \/ /\ j = Len(lines)
                /\ \E c \in LogCallers :
                      lg[c].id = lines[j].id /\ lg[c].pc \in {"f_rest", "r_rest"}
       /\ lines[j].part = 2 =>
             j > 1 /\ lines[j - 1] = [lines[j] EXCEPT !.part = 1]

\* C11 -- sink write atomicity.  On each sink at most one Log call is
\* between its Lock and its Unlock, no Close and no rotation of another
\* call falls between the steps of a Log call, and every line of every
\* log file is one complete serialized event.
SinkWriteAtomic ==
    /\ \A c, d \in LogCallers : InFileLog(c) /\ InFileLog(d) => c = d
    /\ \A c, d \in LogCallers : InRotLog(c) /\ InRotLog(d) => c = d
    /\ \A c \in LogCallers : InFileLog(c) => sinkMu = c
    /\ \A c \in LogCallers : InRotLog(c) => rlMu = c
    /\ \A c \in LogCallers : lg[c].pc = "f_rest" => ~fileClosed
    /\ \A c \in LogCallers :
          lg[c].pc \in {"r_rest", "r_count", "r_sync"} =>
             currentFile.open /\ currentFile.name = lg[c].fname
    /\ CompleteLines(file)
    /\ \A f \in DOMAIN files : CompleteLines(files[f])

\* C11 witness: one caller is between the chunks of its line in the plain
\* sink, another in the rotating sink, and a third call has written a line
\* before them.
SinkWriteAtomicSeen ==
    /\ \E c, d \in LogCallers :
          c # d /\ lg[c].pc = "f_rest" /\ lg[d].pc = "r_rest"
    /\ Len(file) >= 3 \/ \E f \in DOMAIN files : Len(files[f]) >= 3

(***************************************************************************)
(* Properties of Close and of faults (checked under SpecSink)              *)
(***************************************************************************)
\* C12 -- close() is idempotent.  A call of Auditor.Close that is not the
\* first leaves the sink as it was and returns nil.
CloseIdempotent ==
    [][\A t \in Threads :
          (Close(t) /\ closeRes # None) =>
             /\ closeRes' = "nil"
             /\ fileClosed' = fileClosed
             /\ file' = file]_vars

\* C13 -- lifecycle misuse.  An append made after Close has been called is
\* surfaced to its caller as a Closed error.
AppendAfterCloseRejected ==
    [][\A t \in Threads :
          (LogBody(t) /\ arg[t].afterClose) => AppendResult(TRUE) = "Closed"]_vars

\* C14 -- close() never waits for asynchronous dispatch.  In every state,
\* whatever the dispatch goroutines are doing, a goroutine that is not in
\* another call of the store can run Auditor.Close to its return.
CloseNeverWaits ==
    \A t \in Threads : pc[t] = "idle" => ENABLED Close(t)

Faults == {"write_err", "sync_err"}

\* C15 -- persistence fault containment.  Every appended event has one
\* dispatch goroutine, which calls Log once: a Log call that fails ends the
\* goroutine with that error reported, leaves the window as it is, and the
\* goroutine's record never changes again; a producer inside log can still
\* append and dispatch.
FaultContained ==
    /\ [](/\ hasLogger => Len(tasks) = Len(appended)
          /\ \A i \in DOMAIN tasks : tasks[i].e.id = i
          /\ \A t \in Threads : pc[t] = "log_cs" => ENABLED LogBody(t))
    /\ [][/\ \A i \in DOMAIN tasks :
               /\ tasks[i].st = "done" => tasks'[i] = tasks[i]
               /\ tasks[i].st \in {"inLog", "stalled"} =>
                     tasks'[i].st \in {"inLog", "stalled", "done"}
          /\ \A i \in DOMAIN tasks, o \in Faults :
               TaskWrite(i, o) =>
                  /\ events' = events
                  /\ tasks'[i].st = "done" /\ tasks'[i].res = o
                  /\ Len(tasks') = Len(tasks)]_vars

\* C15 witness: the Log call of an event failed, the event is still in the
\* window, and an event appended after the failure has been persisted.
FaultContainedSeen ==
    \E i, j \in DOMAIN tasks :
       /\ i < j
       /\ tasks[i].st = "done" /\ tasks[i].res = "write_err"
       /\ \E k \in DOMAIN events : events[k].id = i
       /\ tasks[j].st = "done" /\ tasks[j].res = "ok"
       /\ \E k \in DOMAIN file : file[k].id = j
       /\ \A k \in DOMAIN file : file[k].id # i

(***************************************************************************)
(* Properties of the decoders                                              *)
(***************************************************************************)
\* C16 -- ParseExecveEvent never panics: for every ArgCount and every
\* contents of the argument region the call returns an argument list.
DecodeNeverPanics ==
    (cx.op = "execve" /\ cx.st # "ready") => cx.st = "returned"

\* The parse the record format is described by: (4-byte little-endian
\* length, that many bytes) entries from offset 0, in order, up to count
\* entries, stopping at the first entry whose length prefix or body does
\* not fit in the rest of the region.
RECURSIVE RefParse(_, _, _, _)
RefParse(region, count, off, acc) ==
    IF count = 0 \/ off + 4 > ArgsLen THEN acc
    ELSE LET n == LittleEndianUint32(region, off)
         IN IF n.h > 0 \/ off + 4 + n.l > ArgsLen THEN acc
            ELSE RefParse(region, count - 1, off + 4 + n.l,
                          Append(acc, SubSeq(region, off + 5, off + 4 + n.l)))

\* C17 -- result of ParseExecveEvent: the argument list is the reference
\* parse of the region, cut after ArgCount entries.
DecodeMatchesReference ==
    (cx.op = "execve" /\ cx.st # "ready") =>
       /\ cx.st = "returned"
       /\ cx.out = RefParse(cx.in.Args, cx.in.ArgCount, 0, <<>>)
       /\ Len(cx.out) <= cx.in.ArgCount

IsPortCall == cx.op \in {"bind", "connect"}

\* C18 as stated -- the record carries the port as two bytes in network
\* order and the decoder converts them: the decoded port is the first byte
\* of the record's port field times 256 plus the second.
DecoderConvertsPort ==
    (IsPortCall /\ cx.st = "returned") =>
       cx.out = <<StoreUint16(cx.in.Port)[1] * 256 + StoreUint16(cx.in.Port)[2]>>

\* C18 amended -- the port is in network order in the sockaddr of the
\* system call; the BPF program converts it when it fills the record, whose
\* port field is in host order, and the decoder returns that field as it
\* is.  From sockaddr port bytes hi, lo the decoded port is hi * 256 + lo.
PortHostOrder ==
    /\ (IsPortCall /\ cx.st # "ready") =>
          cx.in.Port = cx.in.wire[1] * 256 + cx.in.wire[2]
    /\ (IsPortCall /\ cx.st = "returned") =>
          /\ cx.out = <<cx.in.wire[1] * 256 + cx.in.wire[2]>>
          /\ cx.out = <<LoadUint16(StoreUint16(cx.in.Port))>>

\* C18 witness: sockaddr port bytes 0x1F 0x90 have been decoded to 8080.
Port8080Seen ==
    /\ cx.op = "bind" /\ cx.st = "returned"
    /\ cx.in.wire = <<31, 144>>
    /\ cx.out = <<8080>>

\* C19 -- address decoding.  The result is the dotted rendering of bytes
\* 12..15 exactly when bytes 0..9 are zero and bytes 10 and 11 are 0xff;
\* every other buffer is rendered as the IPv6 literal of its 16 bytes.
AddressDecoding ==
    (cx.op = "addr" /\ cx.st = "returned") =>
       LET b == cx.in
           v4 == /\ b[1] = 0 /\ b[2] = 0 /\ b[3] = 0 /\ b[4] = 0 /\ b[5] = 0
                 /\ b[6] = 0 /\ b[7] = 0 /\ b[8] = 0 /\ b[9] = 0 /\ b[10] = 0
                 /\ b[11] = 255 /\ b[12] = 255
       IN /\ v4 <=> cx.out.form = "dotted"
          /\ v4 => cx.out.parts = SubSeq(b, 13, 16)
          /\ ~v4 => /\ cx.out.form = "ipv6"
                    /\ \A g \in 1..8 : cx.out.parts[g] = b[2 * g - 1] * 256 + b[2 * g]

\* C19 witness: 00*10 ff ff c0 a8 01 01 has been decoded to 192.168.1.1.
AddressV4Seen ==
    /\ cx.op = "addr" /\ cx.st = "returned"
    /\ cx.in = V4Prefix \o <<192, 168, 1, 1>>
    /\ cx.out = Dotted(192, 168, 1, 1)

\* C20 -- snapshots.  GetEvents returns the held events, in insertion
\* order, as they were at some moment of the call; GetEventsByPID returns
\* the events of the pid among them, in the same order; what was returned
\* is not changed by anything done afterwards.
SnapshotLaw ==
    [][\A t \in Threads :
          /\ GetEventsCopy(t) => ret'[t] \in arg[t].views
          /\ GetEventsByPIDCopy(t) =>
                \E v \in arg[t].views : ret'[t] = FilterPID(v, arg[t].pid)
          /\ (pc[t] = "got" /\ pc'[t] = "got") => ret'[t] = ret[t]]_vars

\* C21 -- producer/decoder agreement on addresses.  An IPv4 address that
\* the probe has put into the address field of a record is rendered by the
\* decoder as that address in dotted form.
InetRoundTrip ==
    (cx.op = "inet" /\ cx.st = "returned") =>
       cx.out = Dotted(cx.in.sin_addr[1], cx.in.sin_addr[2],
                       cx.in.sin_addr[3], cx.in.sin_addr[4])

(***************************************************************************)
(* Further properties of the RotatingLogger (checked under SpecRot)        *)
(***************************************************************************)
\* C22 -- no writes after close.  A Log call made after
\* RotatingLogger.Close has returned returns an error, opens no file and
\* writes to none.
NoWriteAfterClose ==
    rotLast.afterClose =>
       /\ rotLast.res \in {"rotate_err", "write_err"}
       /\ ~rotLast.rotated

\* The bytes a file holds: each line is its serialized event and a newline.
RECURSIVE BytesIn(_)
BytesIn(lines) ==
    IF lines = <<>> THEN 0 ELSE lines[1].len + 1 + BytesIn(Tail(lines))

\* C23 -- rotation opens a fresh file.  The file a rotation opens holds
\* nothing but what that Log call writes to it, and the byte counter is
\* always the number of bytes in the file being written.
FreshFileRotation ==
    /\ rotLast.rotated =>
          files[currentFile.name] = IF RotWritten THEN <<RotLastLine>> ELSE <<>>
    /\ currentFile.open => currentSize = BytesIn(files[currentFile.name])

\* C24 -- rotated file size bound.  The byte counter never exceeds maxSize,
\* unless the current file holds exactly one event whose line is larger
\* than maxSize.
CounterBound ==
    \/ currentSize <= rlMaxSize
    \/ /\ Len(files[currentFile.name]) = 1
       /\ files[currentFile.name][1].len + 1 > rlMaxSize

(***************************************************************************)
(* Properties of the BPFTracer (checked under SpecTracer, SpecTracerFair)  *)
(***************************************************************************)
\* C25 -- producer hand-off.  The record behind every pointer sent on the
\* events channel is still what it was when the pointer was enqueued, and
\* the records a consumer finds behind the k pointers it has received are
\* the first k records sent, in order.
HandOffLaw ==
    /\ \A i \in 1..Len(bt.sent) : bt.heap[bt.sent[i].ref] = bt.sent[i].rec
    /\ \A i \in 1..Len(bt.seen) : bt.seen[i] = bt.sent[i].rec

\* C26 -- producer shutdown.  Once Close has been called, the readEvents
\* goroutine, if started, eventually returns.
ShutdownTerminates ==
    (bt.done /\ bt.rpc # "unstarted") ~> (bt.rpc = "returned")

====
